---- MODULE Spec2Model ----
(***************************************************************************)
(* Root drivers of src/src/root.rs: adjust_index_for_rlp, the ordered trie *)
(* root, the storage-root tiers and the state-root tiers.                  *)
(*                                                                         *)
(* Every driver is a pure function of its input, so each is an operator    *)
(* computed the way the code computes it, and the state machine is a       *)
(* caller that invokes one driver after another and records what the call  *)
(* did: the add_leaf calls it made, the items it serialized and whether it *)
(* returned a root or panicked.                                            *)
(***************************************************************************)
EXTENDS Integers, Sequences, FiniteSets, TLC

VARIABLES driver, input, outcome, loop

vars == <<driver, input, outcome, loop>>

\* Longest ordered collection, and largest index handed to adjust_index_for_rlp.
MaxItems == 130
\* Ordered collections are ramps seed, seed+1, ... for seed in 0..MaxSeed.
MaxSeed == 1
\* Longest keyed collection (storage entries, accounts).
MaxEntries == 3

(***************************************************************************)
(* Bytes, RLP and nibbles (alloy_rlp, nybbles).                            *)
(***************************************************************************)

\* Minimal big-endian bytes of an unsigned integer (none for zero).
RECURSIVE be_bytes(_)
be_bytes(x) == IF x = 0 THEN <<>> ELSE Append(be_bytes(x \div 256), x % 256)

\* alloy_rlp::encode_fixed_size of an unsigned integer (usize, U256).
encode_fixed_size(x) ==
    IF x = 0 THEN <<128>>
    ELSE IF x < 128 THEN <<x>>
    ELSE <<128 + Len(be_bytes(x))>> \o be_bytes(x)

\* RLP list header followed by the payload.
rlp_list(payload) ==
    IF Len(payload) < 56 THEN <<192 + Len(payload)>> \o payload
    ELSE <<247 + Len(be_bytes(Len(payload)))>> \o be_bytes(Len(payload)) \o payload

\* Nibbles::unpack: two nibbles per byte, high nibble first.
unpack(bytes) ==
    [n \in 1..(2 * Len(bytes)) |->
        IF n % 2 = 1 THEN bytes[(n + 1) \div 2] \div 16 ELSE bytes[n \div 2] % 16]

\* Ord of nibble paths from position k on: lexicographic, a proper prefix first.
RECURSIVE LexLessFrom(_, _, _)
LexLessFrom(a, b, k) ==
    IF k > Len(b) THEN FALSE
    ELSE IF k > Len(a) THEN TRUE
    ELSE IF a[k] = b[k] THEN LexLessFrom(a, b, k + 1)
    ELSE a[k] < b[k]

LexLess(a, b) == LexLessFrom(a, b, 1)

\* A B256 is held as the unsigned number its 32 bytes spell, most significant
\* byte first; the order of B256 values (bytewise, lexicographic) is the order
\* of these numbers.  Here are its bytes, for values below 2^16.
B256Bytes(n) ==
    [b \in 1..32 |-> IF b = 32 THEN n % 256 ELSE IF b = 31 THEN (n \div 256) % 256 ELSE 0]

\* The 20 bytes of an address, held as a number below 2^8.
AddressBytes(n) == [b \in 1..20 |-> IF b = 20 THEN n % 256 ELSE 0]

\* keccak256: a digest (a B256) that is injective on the identifiers used here
\* and does not follow their order.
keccak256(bytes) == (((7 * bytes[Len(bytes)]) + Len(bytes)) % 11) * 50

(***************************************************************************)
(* adjust_index_for_rlp                                                    *)
(***************************************************************************)

adjust_index_ge(i, len) ==
    IF i >= 127 THEN i
    ELSE IF i = 127 \/ i + 1 = len THEN 0
    ELSE i + 1

adjust_index_last(i, len) ==
    IF i > 127 THEN i
    ELSE IF i = 127 \/ i = len THEN 0
    ELSE i + 1

adjust_index_for_rlp(i, len) ==
    IF i > 127 THEN i
    ELSE IF i = 127 \/ i + 1 = len THEN 0
    ELSE i + 1

(***************************************************************************)
(* HashBuilder: the trie engine.  key is the path of the last leaf,        *)
(* leaves the leaves it holds, calls every add_leaf invocation it received *)
(* (the rejected one included), panicked whether add_leaf's order          *)
(* assertion failed.                                                       *)
(***************************************************************************)

\* The root of zero leaves; a root is the digest of the leaves it commits to.
EMPTY_ROOT_HASH == [keccak |-> <<>>]

HashBuilder_default ==
    [key |-> <<>>, leaves |-> <<>>, calls |-> <<>>, panicked |-> FALSE]

Leaf(path, val, private) == [path |-> path, val |-> val, private |-> private]

add_leaf_unchecked(hb, path, val, private) ==
    [key |-> path,
     leaves |-> Append(hb.leaves, Leaf(path, val, private)),
     calls |-> Append(hb.calls, Leaf(path, val, private)),
     panicked |-> FALSE]

\* add_leaf: the path must be strictly greater than the last one.
add_leaf(hb, path, val, private) ==
    IF ~ LexLess(hb.key, path)
    THEN [hb EXCEPT !.calls = Append(@, Leaf(path, val, private)), !.panicked = TRUE]
    ELSE add_leaf_unchecked(hb, path, val, private)

HashBuilder_root(hb) ==
    IF hb.leaves = <<>> THEN EMPTY_ROOT_HASH ELSE [keccak |-> hb.leaves]

\* What a call did: root is <<r>> when r was returned, <<>> when the call panicked.
Returned(r, calls, encoded) ==
    [status |-> "ok", root |-> <<r>>, calls |-> calls, encoded |-> encoded]

Panicked(calls, encoded) ==
    [status |-> "panic", root |-> <<>>, calls |-> calls, encoded |-> encoded]

(***************************************************************************)
(* ordered_trie_root, ordered_trie_root_with_encoder                       *)
(***************************************************************************)

\* The caller's encoders, each appending to the buffer: Encodable::encode of an
\* integer item, and a custom one that writes a type byte first.
Encoders == {"rlp", "typed"}

encode(enc, item, buf) ==
    IF enc = "rlp" THEN buf \o encode_fixed_size(item)
    ELSE buf \o <<2>> \o encode_fixed_size(item)

\* value_buffer.clear()
clear(buf) == <<>>

ordered_item_logical(items, i, index) == items[i + 1]

\* &items[index]: the item the loop serializes in iteration i (0-based indices).
ordered_item(items, i, index) == items[index + 1]

\* The state of the loop of ordered_trie_root_with_encoder before iteration 0.
\* oob is set when items[index] is out of bounds, which panics.
ordered_loop_start ==
    [i |-> 0, hb |-> HashBuilder_default, value_buffer |-> <<>>,
     encoded |-> <<>>, oob |-> FALSE]

\* Iteration st.i of the loop of ordered_trie_root_with_encoder.
ordered_step(items, enc, st) ==
    LET items_len == Len(items)
        index == adjust_index_for_rlp(st.i, items_len)
        index_buffer == encode_fixed_size(index)
    IN  IF index >= items_len
        THEN [st EXCEPT !.oob = TRUE]
        ELSE LET value_buffer ==
                     encode(enc, ordered_item(items, st.i, index), clear(st.value_buffer))
                 private == FALSE
             IN  [i |-> st.i + 1,
                  hb |-> add_leaf(st.hb, unpack(index_buffer), value_buffer, private),
                  value_buffer |-> value_buffer,
                  encoded |-> Append(st.encoded, index),
                  oob |-> FALSE]

early_return_zero(items) == Returned([keccak |-> <<"zero">>], <<>>, <<>>)

\* if items.is_empty() { return EMPTY_ROOT_HASH; }
early_return(items) == Returned(EMPTY_ROOT_HASH, <<>>, <<>>)

(***************************************************************************)
(* StorageValue: a bare U256, or a (U256, bool) pair.                      *)
(***************************************************************************)

U256Values == {42, 300}

BareValues == {[ty |-> "U256", v |-> n] : n \in U256Values}

PairValues ==
    {[ty |-> "pair", v |-> 42, p |-> FALSE],
     [ty |-> "pair", v |-> 42, p |-> TRUE],
     [ty |-> "pair", v |-> 300, p |-> TRUE]}

is_private_default(x) == FALSE

is_private(x) == IF x.ty = "pair" THEN x.p ELSE FALSE

value(x) == x.v

(***************************************************************************)
(* Storage roots                                                           *)
(***************************************************************************)

RECURSIVE storage_root_loop_unchecked(_, _, _)
storage_root_loop_unchecked(storage, k, hb) ==
    IF k > Len(storage) THEN hb
    ELSE storage_root_loop_unchecked(storage, k + 1,
             add_leaf_unchecked(hb, unpack(B256Bytes(storage[k].key)),
                                encode_fixed_size(value(storage[k].val)),
                                is_private(storage[k].val)))

storage_root_unchecked(storage) ==
    LET hb == storage_root_loop_unchecked(storage, 1, HashBuilder_default)
    IN  Returned(HashBuilder_root(hb), hb.calls, <<>>)

\* The loop of storage_root from entry k on (1-based); it ends at a panic.
RECURSIVE storage_root_loop(_, _, _)
storage_root_loop(storage, k, hb) ==
    IF k > Len(storage) \/ hb.panicked THEN hb
    ELSE storage_root_loop(storage, k + 1,
             add_leaf(hb, unpack(B256Bytes(storage[k].key)),
                      encode_fixed_size(value(storage[k].val)),
                      is_private(storage[k].val)))

storage_root(storage) ==
    LET hb == storage_root_loop(storage, 1, HashBuilder_default)
    IN  IF hb.panicked THEN Panicked(hb.calls, <<>>)
        ELSE Returned(HashBuilder_root(hb), hb.calls, <<>>)

\* The arrangements of the entries v[i], i in idx, in ascending key order.
RECURSIVE SortedArrangements(_, _)
SortedArrangements(v, idx) ==
    IF idx = {} THEN {<<>>}
    ELSE LET least == {i \in idx : \A j \in idx : v[i].key <= v[j].key}
         IN  UNION {{<<v[i]>> \o rest : rest \in SortedArrangements(v, idx \ {i})} :
                       i \in least}

sort_none(v) == {v}

\* v.sort_unstable_by_key(|(key, _)| *key): every order of v that is ascending
\* by key; entries of equal key may end in either order.
sort_unstable_by_key(v) == SortedArrangements(v, DOMAIN v)

\* The outcomes storage_root_unsorted can have (one per order the sort may give).
storage_root_unsorted(storage) ==
    {storage_root(v) : v \in sort_unstable_by_key(storage)}

\* .map(|(slot, value)| (keccak256(slot), value))
hash_slots(storage) ==
    [k \in DOMAIN storage |->
        [key |-> keccak256(B256Bytes(storage[k].key)), val |-> storage[k].val]]

storage_root_unhashed(storage) == storage_root_unsorted(hash_slots(storage))

(***************************************************************************)
(* State roots                                                             *)
(***************************************************************************)

\* The account representations A handed in: a nonce and a balance.
Accounts == {[nonce |-> 0, balance |-> 0], [nonce |-> 1, balance |-> 300]}

\* Into<TrieAccount>: the canonical record (nonce, balance, storage root, code
\* hash) of an account without storage or code.
into_trie_account(account) ==
    [nonce |-> account.nonce, balance |-> account.balance,
     storage_root |-> B256Bytes(86), code_hash |-> B256Bytes(197)]

\* TrieAccount::encode, appending to the buffer.
encode_account(acct, buf) ==
    buf \o rlp_list(encode_fixed_size(acct.nonce) \o encode_fixed_size(acct.balance)
                    \o <<160>> \o acct.storage_root \o <<160>> \o acct.code_hash)

\* The loop of state_root from entry k on (1-based); it ends at a panic.
RECURSIVE state_root_loop(_, _, _)
state_root_loop(state, k, st) ==
    IF k > Len(state) \/ st.hb.panicked THEN st
    ELSE LET account_rlp_buf ==
                 encode_account(into_trie_account(state[k].val), clear(st.account_rlp_buf))
             private == FALSE
         IN  state_root_loop(state, k + 1,
                 [hb |-> add_leaf(st.hb, unpack(B256Bytes(state[k].key)), account_rlp_buf, private),
                  account_rlp_buf |-> account_rlp_buf])

state_root(state) ==
    LET st == state_root_loop(state, 1,
                  [hb |-> HashBuilder_default, account_rlp_buf |-> <<>>])
    IN  IF st.hb.panicked THEN Panicked(st.hb.calls, <<>>)
        ELSE Returned(HashBuilder_root(st.hb), st.hb.calls, <<>>)

\* The outcomes state_root_unsorted can have (one per order the sort may give).
state_root_unsorted(state) ==
    {state_root(v) : v \in sort_unstable_by_key(state)}

\* account.clone()
clone(account) == account

state_root_unhashed_raw(state) == state_root_unsorted(state)

\* .map(|(address, account)| (keccak256(address), account))
hash_addresses(state) ==
    [k \in DOMAIN state |->
        [key |-> keccak256(AddressBytes(state[k].key)), val |-> state[k].val]]

state_root_unhashed(state) == state_root_unsorted(hash_addresses(state))

state_root_ref_unhashed(state) ==
    state_root_unsorted(
        [k \in DOMAIN state |->
            [key |-> keccak256(AddressBytes(state[k].key)), val |-> clone(state[k].val)]])

(***************************************************************************)
(* The callers' inputs                                                     *)
(***************************************************************************)

SeqsUpTo(S, n) == UNION {[1..k -> S] : k \in 0..n}

\* Ordered collections: the ramps seed, seed+1, ... of every length up to
\* MaxItems, and every short sequence of small items (repeats included).
ItemLists ==
    {[k \in 1..n |-> seed + k - 1] : n \in 0..MaxItems, seed \in 0..MaxSeed}
        \cup SeqsUpTo(0..MaxSeed, MaxEntries)

\* Hashed keys, raw slot identifiers and addresses.
HashedKeys == {1, 2, 300}

Slots == {0, 1, 2}

Addresses == {0, 1, 2}

Entries(keys, vals) == {[key |-> k, val |-> v] : k \in keys, v \in vals}

\* A collection is of one StorageValue shape: all bare, or all pairs.
StorageLists(keys) ==
    SeqsUpTo(Entries(keys, BareValues), MaxEntries)
        \cup SeqsUpTo(Entries(keys, PairValues), MaxEntries)

StateLists(keys) == SeqsUpTo(Entries(keys, Accounts), MaxEntries)

(***************************************************************************)
(* The state machine: a caller invoking the drivers one call at a time.    *)
(***************************************************************************)

NoOutcome == [status |-> "none"]

Running == [status |-> "running"]

NoLoop == [i |-> 0]

Init ==
    /\ driver = "none"
    /\ input = <<>>
    /\ outcome = NoOutcome
    /\ loop = NoLoop

Call_adjust_index_for_rlp ==
    /\ driver = "none"
    /\ \E i \in 0..MaxItems, len \in 0..MaxItems :
        /\ driver' = "adjust_index_for_rlp"
        /\ input' = [i |-> i, len |-> len]
        /\ outcome' = [status |-> "ok", index |-> adjust_index_for_rlp(i, len)]
    /\ loop' = NoLoop

\* ordered_trie_root_with_encoder up to its loop: the early return, or the
\* builder and the buffer set up.
ordered_enter(name, items, enc) ==
    /\ driver' = name
    /\ input' = [items |-> items, enc |-> enc]
    /\ IF items = <<>>
       THEN outcome' = early_return(items) /\ loop' = NoLoop
       ELSE outcome' = Running /\ loop' = ordered_loop_start

Call_ordered_trie_root ==
    /\ driver = "none"
    /\ \E items \in ItemLists : ordered_enter("ordered_trie_root", items, "rlp")

Call_ordered_trie_root_with_encoder ==
    /\ driver = "none"
    /\ \E items \in ItemLists, enc \in Encoders :
        ordered_enter("ordered_trie_root_with_encoder", items, enc)

\* One iteration of for i in 0..items_len; a panic ends the call.
ordered_iterate ==
    /\ outcome = Running
    /\ loop.i < Len(input.items)
    /\ LET st == ordered_step(input.items, input.enc, loop)
       IN  /\ loop' = st
           /\ outcome' = IF st.oob \/ st.hb.panicked
                         THEN Panicked(st.hb.calls, st.encoded)
                         ELSE Running
    /\ UNCHANGED <<driver, input>>

\* hb.root()
ordered_return ==
    /\ outcome = Running
    /\ loop.i >= Len(input.items)
    /\ outcome' = Returned(HashBuilder_root(loop.hb), loop.hb.calls, loop.encoded)
    /\ UNCHANGED <<driver, input, loop>>

Call_storage_root ==
    /\ driver = "none"
    /\ \E storage \in StorageLists(HashedKeys) :
        /\ driver' = "storage_root"
        /\ input' = storage
        /\ outcome' = storage_root(storage)
    /\ loop' = NoLoop

Call_storage_root_unsorted ==
    /\ driver = "none"
    /\ \E storage \in StorageLists(HashedKeys) :
        /\ driver' = "storage_root_unsorted"
        /\ input' = storage
        /\ outcome' \in storage_root_unsorted(storage)
    /\ loop' = NoLoop

Call_storage_root_unhashed ==
    /\ driver = "none"
    /\ \E storage \in StorageLists(Slots) :
        /\ driver' = "storage_root_unhashed"
        /\ input' = storage
        /\ outcome' \in storage_root_unhashed(storage)
    /\ loop' = NoLoop

Call_state_root ==
    /\ driver = "none"
    /\ \E state \in StateLists(HashedKeys) :
        /\ driver' = "state_root"
        /\ input' = state
        /\ outcome' = state_root(state)
    /\ loop' = NoLoop

Call_state_root_unsorted ==
    /\ driver = "none"
    /\ \E state \in StateLists(HashedKeys) :
        /\ driver' = "state_root_unsorted"
        /\ input' = state
        /\ outcome' \in state_root_unsorted(state)
    /\ loop' = NoLoop

Call_state_root_unhashed ==
    /\ driver = "none"
    /\ \E state \in StateLists(Addresses) :
        /\ driver' = "state_root_unhashed"
        /\ input' = state
        /\ outcome' \in state_root_unhashed(state)
    /\ loop' = NoLoop

Call_state_root_ref_unhashed ==
    /\ driver = "none"
    /\ \E state \in StateLists(Addresses) :
        /\ driver' = "state_root_ref_unhashed"
        /\ input' = state
        /\ outcome' \in state_root_ref_unhashed(state)
    /\ loop' = NoLoop

\* The caller drops the result; nothing outlives a call.
Discard ==
    /\ outcome.status \in {"ok", "panic"}
    /\ driver' = "none"
    /\ input' = <<>>
    /\ outcome' = NoOutcome
    /\ loop' = NoLoop

Next ==
    \/ Call_adjust_index_for_rlp
    \/ Call_ordered_trie_root
    \/ Call_ordered_trie_root_with_encoder
    \/ ordered_iterate
    \/ ordered_return
    \/ Call_storage_root
    \/ Call_storage_root_unsorted
    \/ Call_storage_root_unhashed
    \/ Call_state_root
    \/ Call_state_root_unsorted
    \/ Call_state_root_unhashed
    \/ Call_state_root_ref_unhashed
    \/ Discard

Spec == Init /\ [][Next]_vars

(***************************************************************************)
(* Properties                                                              *)
(***************************************************************************)

OrderedDrivers == {"ordered_trie_root", "ordered_trie_root_with_encoder"}

StorageDrivers == {"storage_root", "storage_root_unsorted", "storage_root_unhashed"}

StateDrivers ==
    {"state_root", "state_root_unsorted", "state_root_unhashed", "state_root_ref_unhashed"}

UnhashedDrivers == {"storage_root_unhashed", "state_root_unhashed", "state_root_ref_unhashed"}

\* The drivers that sort their input themselves.
SortingDrivers ==
    {"storage_root_unsorted", "storage_root_unhashed", "state_root_unsorted",
     "state_root_unhashed", "state_root_ref_unhashed"}

\* The add_leaf calls made so far by the call in progress or just ended.
CallsMade ==
    IF driver \in OrderedDrivers
    THEN (IF Len(input.items) = 0 THEN <<>> ELSE loop.hb.calls)
    ELSE IF driver \in StorageDrivers \cup StateDrivers THEN outcome.calls
    ELSE <<>>

\* The indices of the items serialized so far by an ordered-root call.
EncodedSoFar == IF Len(input.items) = 0 THEN <<>> ELSE loop.encoded

DistinctKeys(entries) ==
    \A a, b \in DOMAIN entries : a # b => entries[a].key # entries[b].key

HasDuplicateKey(entries) == ~ DistinctKeys(entries)

PermutationsOf(v) ==
    {[k \in DOMAIN v |-> v[p[k]]] : p \in Permutations(DOMAIN v)}

\* C1: adjust_index_for_rlp(i, len) is i when i > 127, 0 when i <= 127 and
\* (i = 127 or i + 1 = len), and i + 1 otherwise; for len in 1..128 and i < len
\* it is 0 exactly when i = len - 1 or i = 127, and i + 1 otherwise.
C1_AdjustContract ==
    driver = "adjust_index_for_rlp" =>
        LET i == input.i
            len == input.len
            j == outcome.index
        IN  /\ i > 127 => j = i
            /\ (i <= 127 /\ (i = 127 \/ i + 1 = len)) => j = 0
            /\ (i <= 127 /\ i # 127 /\ i + 1 # len) => j = i + 1
            /\ (len \in 1..128 /\ i < len) =>
                   /\ (j = 0) <=> (i = len - 1 \/ i = 127)
                   /\ j # 0 => j = i + 1

C1_Witness ==
    /\ driver = "adjust_index_for_rlp"
    /\ input.i = 127
    /\ input.len = 128
    /\ outcome.index = 0

C3_PermutationInvariant ==
    (driver = "storage_root_unsorted" /\ DistinctKeys(input)) =>
        \A q \in PermutationsOf(input) : storage_root_unsorted(q) = {outcome}

C3_Witness ==
    /\ driver = "storage_root_unsorted"
    /\ Len(input) = 3
    /\ DistinctKeys(input)
    /\ input[2].key < input[1].key
    /\ outcome.status = "ok"
    /\ Len(outcome.calls) = 3

\* C4: storage_root and state_root panic, returning no root, whenever two
\* consecutive entries of their input have keys that are not strictly ascending.
C4_SortedTierPanics ==
    (/\ driver \in {"storage_root", "state_root"}
     /\ \E k \in 1..(Len(input) - 1) : ~ (input[k].key < input[k + 1].key))
        => (outcome.status = "panic" /\ outcome.root = <<>>)

C4_Witness ==
    /\ driver = "storage_root"
    /\ Len(input) = 2
    /\ input[1].key = input[2].key
    /\ outcome.status = "panic"

C6_PathsNonDecreasing ==
    driver \in OrderedDrivers \cup SortingDrivers =>
        LET calls == CallsMade
        IN  \A k \in 1..(Len(calls) - 1) : ~ LexLess(calls[k + 1].path, calls[k].path)

C6_Witness ==
    /\ driver = "storage_root_unhashed"
    /\ Len(input) = 3
    /\ keccak256(B256Bytes(input[2].key)) < keccak256(B256Bytes(input[1].key))
    /\ Len(outcome.calls) = 3

\* C7: state_root_unhashed(pairs) is state_root_unsorted of the pairs with each
\* address replaced by its hash, and state_root_ref_unhashed over the same pairs
\* gives the same as state_root_unhashed.
C7_UnhashedIsUnsortedOfHashed ==
    LET hashed == [k \in DOMAIN input |->
                      [key |-> keccak256(AddressBytes(input[k].key)), val |-> input[k].val]]
    IN  /\ driver = "state_root_unhashed" =>
               /\ outcome \in state_root_unsorted(hashed)
               /\ state_root_unhashed(input) = state_root_unsorted(hashed)
        /\ driver = "state_root_ref_unhashed" =>
               /\ outcome \in state_root_unhashed(input)
               /\ state_root_ref_unhashed(input) = state_root_unhashed(input)

C7_Witness ==
    /\ driver = "state_root_unhashed"
    /\ Len(input) = 2
    /\ input[1].key # input[2].key
    /\ outcome.status = "ok"

\* C8: every root driver called on an empty collection returns the empty-root
\* constant and does not panic; the ordered-root drivers return it at once,
\* with no encoder call and no leaf inserted.
C8_EmptyGivesEmptyRoot ==
    /\ (driver \in OrderedDrivers /\ Len(input.items) = 0) =>
           /\ outcome = Returned(EMPTY_ROOT_HASH, <<>>, <<>>)
           /\ loop = NoLoop
    /\ (driver \in StorageDrivers \cup StateDrivers /\ Len(input) = 0) =>
           /\ outcome.status = "ok"
           /\ outcome.root = <<EMPTY_ROOT_HASH>>
           /\ outcome.calls = <<>>

C8_Witness ==
    /\ driver = "ordered_trie_root_with_encoder"
    /\ Len(input.items) = 0
    /\ outcome.status = "ok"

\* C9: every leaf of the ordered-root and state-root drivers is public; every
\* leaf of a storage-root tier carries the key, the value and the flag of one
\* and the same input entry, the flag being false for a bare integer and the
\* boolean of an (integer, bool) pair.
C9_PrivacyFlag ==
    LET calls == CallsMade
    IN  /\ driver \in OrderedDrivers \cup StateDrivers =>
               \A k \in 1..Len(calls) : calls[k].private = FALSE
        /\ driver \in StorageDrivers =>
               \A k \in 1..Len(calls) :
                   \E e \in DOMAIN input :
                       LET key == IF driver \in UnhashedDrivers
                                  THEN keccak256(B256Bytes(input[e].key)) ELSE input[e].key
                           flag == IF input[e].val.ty = "pair" THEN input[e].val.p ELSE FALSE
                       IN  /\ calls[k].path = unpack(B256Bytes(key))
                           /\ calls[k].val = encode_fixed_size(input[e].val.v)
                           /\ calls[k].private = flag
        /\ driver = "storage_root" =>
               \A k \in 1..Len(calls) :
                   calls[k].private =
                       (IF input[k].val.ty = "pair" THEN input[k].val.p ELSE FALSE)

C9_Witness ==
    /\ driver = "storage_root_unhashed"
    /\ Len(input) = 2
    /\ keccak256(B256Bytes(input[2].key)) < keccak256(B256Bytes(input[1].key))
    /\ input[1].val.ty = "pair"
    /\ input[1].val.p /\ ~ input[2].val.p
    /\ outcome.status = "ok"
    /\ ~ outcome.calls[1].private /\ outcome.calls[2].private

\* C10: for len >= 1, i -> adjust_index_for_rlp(i, len) maps 0..len-1 one-to-one
\* onto itself; so an ordered-root call never indexes out of bounds and never
\* panics, serializes each item exactly once, and inserts len leaves with
\* pairwise distinct keys.
C10_AdjustIsBijection ==
    /\ (driver = "adjust_index_for_rlp" /\ input.len >= 1 /\ input.i < input.len) =>
           /\ outcome.index \in 0..(input.len - 1)
           /\ \A i2 \in 0..(input.len - 1) :
                  i2 # input.i => adjust_index_for_rlp(i2, input.len) # outcome.index
    /\ driver \in OrderedDrivers =>
           LET n == Len(input.items)
               calls == CallsMade
               encoded == EncodedSoFar
           IN  /\ outcome.status # "panic"
               /\ \A k \in 1..Len(encoded) : encoded[k] \in 0..(n - 1)
               /\ Cardinality({encoded[k] : k \in 1..Len(encoded)}) = Len(encoded)
               /\ Cardinality({calls[k].path : k \in 1..Len(calls)}) = Len(calls)
               /\ outcome.status = "ok" =>
                      /\ Len(encoded) = n
                      /\ {encoded[k] : k \in 1..n} = 0..(n - 1)
                      /\ Len(calls) = n
                      /\ outcome.calls = calls

C10_Witness ==
    /\ driver \in OrderedDrivers
    /\ Len(input.items) = 129
    /\ outcome.status = "ok"
    /\ Len(outcome.encoded) = 129

====
